---- MODULE Spec2Model ----
(***************************************************************************)
(* Cycle-stepped model of the Tomasulo scheduler of FINAL-main.py: the     *)
(* register file, the seven reservation-station pools, the reorder buffer, *)
(* the stall queue, the per-instruction metadata records and the main      *)
(* loop (retry stalled, fetch + issue, execute + write back, commit).      *)
(***************************************************************************)
EXTENDS Integers, Sequences, FiniteSets, TLC

\* ---------------------------------------------------------------------
\* Program constants
\* ---------------------------------------------------------------------
REGISTER_COUNT == 8
ROB_SIZE == 6
EXAMPLE_RESULT == 42

\* Python's None, one stand-in per type
NoTag == "None"
NoCycle == -1
NoVal == -1

\* ---------------------------------------------------------------------
\* Bounds of the model
\* ---------------------------------------------------------------------
MaxLen == 3
MaxCycle == 40

Regs == 0 .. (REGISTER_COUNT - 1)

\* ---------------------------------------------------------------------
\* Instructions (parse_instruction output): a mnemonic and operand tokens
\* ---------------------------------------------------------------------
Reg(n) == [kind |-> "reg", reg |-> n, offset |-> 0]
Mem(k, n) == [kind |-> "mem", reg |-> n, offset |-> k]
Instruction(operation, operands) == [operation |-> operation, operands |-> operands]

\* The instruction lines programs are built from
InstrSet ==
    { Instruction("LOAD",  <<Reg(1), Mem(0, 2)>>),
      Instruction("LOAD",  <<Reg(3), Mem(4, 2)>>),
      Instruction("ADD",   <<Reg(3), Reg(1), Reg(4)>>),
      Instruction("STORE", <<Reg(1), Mem(0, 2)>>),
      Instruction("MULT",  <<Reg(1), Reg(2), Reg(3)>>),
      Instruction("BEQ",   <<Reg(1), Reg(2)>>),
      Instruction("CALL",  <<Reg(6)>>),
      Instruction("NAND",  <<Reg(1), Reg(2), Reg(3)>>) }

\* Longer programs that fill the pools and the reorder buffer
ScenarioPrograms ==
    { \* five instructions stalled behind one LOAD, all issued in cycle 7
      << Instruction("LOAD",  <<Reg(1), Mem(0, 2)>>),
         Instruction("BEQ",   <<Reg(1), Reg(2)>>),
         Instruction("BEQ",   <<Reg(1), Reg(2)>>),
         Instruction("STORE", <<Reg(1), Mem(0, 2)>>),
         Instruction("ADD",   <<Reg(3), Reg(1), Reg(4)>>),
         Instruction("MULT",  <<Reg(1), Reg(2), Reg(3)>>),
         Instruction("CALL",  <<Reg(6)>>),
         Instruction("RET",   <<Reg(6)>>) >>,
      \* ADD and ADDI share a pool
      << Instruction("ADDI",  <<Reg(5), Reg(6), Reg(7)>>),
         Instruction("ADD",   <<Reg(4), Reg(2), Reg(1)>>),
         Instruction("LOAD",  <<Reg(1), Mem(0, 2)>>),
         Instruction("ADD",   <<Reg(7), Reg(6), Reg(1)>>) >>,
      \* lines whose mnemonic is not an instruction of the machine
      << Instruction("AND",   <<Reg(5), Reg(6), Reg(7)>>),
         Instruction("SUB",   <<Reg(5), Reg(6), Reg(7)>>) >>,
      \* a stalled instruction overtaken by a later one
      << Instruction("ADD",   <<Reg(3), Reg(1), Reg(4)>>),
         Instruction("LOAD",  <<Reg(1), Mem(0, 2)>>),
         Instruction("LOAD",  <<Reg(3), Mem(4, 2)>>),
         Instruction("BEQ",   <<Reg(1), Reg(2)>>),
         Instruction("ADD",   <<Reg(3), Reg(1), Reg(4)>>) >>,
      \* seven write-backs find the reorder buffer full in cycle 12
      << Instruction("LOAD",  <<Reg(1), Mem(0, 2)>>),
         Instruction("STORE", <<Reg(1), Mem(0, 2)>>),
         Instruction("BEQ",   <<Reg(1), Reg(2)>>),
         Instruction("LOAD",  <<Reg(3), Mem(4, 2)>>),
         Instruction("RET",   <<Reg(1)>>),
         Instruction("BEQ",   <<Reg(1), Reg(2)>>),
         Instruction("CALL",  <<Reg(6)>>),
         Instruction("ADD",   <<Reg(6), Reg(1), Reg(1)>>),
         Instruction("ADDI",  <<Reg(5), Reg(1), Reg(7)>>),
         Instruction("ADDI",  <<Reg(4), Reg(1), Reg(7)>>),
         Instruction("ADD",   <<Reg(7), Reg(1), Reg(1)>>) >> }

RECURSIVE SeqsUpTo(_, _)
SeqsUpTo(S, n) ==
    IF n = 0 THEN { <<>> }
    ELSE LET shorter == SeqsUpTo(S, n - 1)
         IN  shorter \cup { Append(s, x) : s \in { t \in shorter : Len(t) = n - 1 }, x \in S }

Programs == (SeqsUpTo(InstrSet, MaxLen) \ { <<>> }) \cup ScenarioPrograms

\* ---------------------------------------------------------------------
\* Reservation-station pools (lines 262-268), in the order they are advanced
\* ---------------------------------------------------------------------
PoolNames == << "LOAD", "ADD/ADDI", "STORE", "MULT", "BEQ", "CALL/RET", "NAND" >>
Pools == { PoolNames[i] : i \in 1 .. Len(PoolNames) }
NoPool == "no pool"

num_stations(p) ==
    CASE p = "LOAD" -> 2
      [] p = "ADD/ADDI" -> 4
      [] p = "STORE" -> 1
      [] p = "MULT" -> 1
      [] p = "BEQ" -> 2
      [] p = "CALL/RET" -> 2
      [] p = "NAND" -> 2

execution_cycles_short(p) ==
    CASE p = "LOAD" -> 6
      [] p = "ADD/ADDI" -> 2
      [] p = "STORE" -> 6
      [] p = "MULT" -> 7
      [] p = "BEQ" -> 3
      [] p = "CALL/RET" -> 4
      [] p = "NAND" -> 1

execution_cycles(p) ==
    CASE p = "LOAD" -> 6
      [] p = "ADD/ADDI" -> 2
      [] p = "STORE" -> 6
      [] p = "MULT" -> 8
      [] p = "BEQ" -> 3
      [] p = "CALL/RET" -> 4
      [] p = "NAND" -> 1

\* `instr.operation in "NAND"` is Python's substring test
SubstringsOfNAND == { "N", "A", "D", "NA", "AN", "ND", "NAN", "AND", "NAND" }

\* The elif chain of the issue step: the pool an operation is dispatched to
PoolOf(operation) ==
    CASE operation = "LOAD" -> "LOAD"
      [] operation = "STORE" -> "STORE"
      [] operation \in { "ADD", "ADDI" } -> "ADD/ADDI"
      [] operation = "MULT" -> "MULT"
      [] operation = "BEQ" -> "BEQ"
      [] operation \in { "CALL", "RET" } -> "CALL/RET"
      [] operation \in SubstringsOfNAND -> "NAND"
      [] OTHER -> NoPool

\* The status tag written by the issue step (set_status), if any
IssueTag(p) ==
    CASE p = "LOAD" -> "LOAD"
      [] p = "ADD/ADDI" -> "ADD"
      [] OTHER -> NoTag

\* ---------------------------------------------------------------------
\* State
\* ---------------------------------------------------------------------
VARIABLES
    program,              \* the loaded program (never changes)
    instruction_queue,    \* InstructionQueue.queue
    stalled_queue,        \* stalled_queue
    register_file,        \* RegisterFile: values and status
    dependency_table,     \* dependency_table[Rn]["W"]
    stations,             \* pool name -> ReservationStation.stations
    reorder_buffer,       \* ReorderBuffer.entries
    instruction_metadata, \* instruction_metadata
    current_cycle,        \* current_cycle
    pc                    \* position in the loop body

vars == << program, instruction_queue, stalled_queue, register_file, dependency_table,
           stations, reorder_buffer, instruction_metadata, current_cycle, pc >>

EmptyStation ==
    [busy |-> FALSE, op |-> NoTag, Vj |-> NoVal, Vk |-> NoVal, Qj |-> NoTag, Qk |-> NoTag,
     cycles_left |-> 0, id |-> 0]

EmptyEntry == [busy |-> FALSE, instruction |-> NoTag, state |-> "issue", result |-> NoVal]

\* ---------------------------------------------------------------------
\* RegisterFile
\* ---------------------------------------------------------------------
is_ready(rf, reg_index) == rf.status[reg_index] = NoTag
get_value(rf, reg_index) == rf.values[reg_index]

\* ---------------------------------------------------------------------
\* resolve_operands: only operands[0] and operands[1] are looked at
\* ---------------------------------------------------------------------
resolve_operands(rf, operands) ==
    LET r0 == operands[1].reg
        first == IF is_ready(rf, r0)
                 THEN [V |-> get_value(rf, r0), Q |-> NoTag]
                 ELSE [V |-> NoVal, Q |-> rf.status[r0]]
        second ==
            IF Len(operands) > 1
            THEN LET t == operands[2]
                 IN  IF is_ready(rf, t.reg)
                     THEN [V |-> IF t.kind = "mem" THEN get_value(rf, t.reg) + t.offset
                                 ELSE get_value(rf, t.reg),
                           Q |-> NoTag]
                     ELSE [V |-> NoVal, Q |-> rf.status[t.reg]]
            ELSE [V |-> NoVal, Q |-> NoTag]
    IN  [Vj |-> first.V, Vk |-> second.V, Qj |-> first.Q, Qk |-> second.Q]

\* ---------------------------------------------------------------------
\* ReservationStation
\* ---------------------------------------------------------------------
is_available(sts) == \E i \in 1 .. Len(sts) : ~sts[i].busy

FirstFree(sts) == CHOOSE i \in 1 .. Len(sts) : ~sts[i].busy /\ \A j \in 1 .. (i - 1) : sts[j].busy

allocate(sts, p, instr, r) ==
    [sts EXCEPT ![FirstFree(sts)] =
        [busy |-> TRUE, op |-> instr.operation, Vj |-> r.Vj, Vk |-> r.Vk, Qj |-> r.Qj, Qk |-> r.Qk,
         cycles_left |-> execution_cycles(p), id |-> instr.id]]

release(sts, i) == [sts EXCEPT ![i] = EmptyStation]

\* ---------------------------------------------------------------------
\* Metadata: a field goes to the first record of that mnemonic lacking it
\* ---------------------------------------------------------------------
NewRecord(instr, cycle) ==
    [instruction |-> instr.operation, issued |-> cycle, start_exec |-> NoCycle,
     finish_exec |-> NoCycle, write_exec |-> NoCycle, commit |-> NoCycle, id |-> instr.id]

Lacking(meta, operation, field) ==
    { i \in 1 .. Len(meta) : meta[i].instruction = operation /\ meta[i][field] = NoCycle }

Min(S) == CHOOSE x \in S : \A y \in S : x <= y

\* sequencing of two statements: e is computed once and its value handed to F
Then(e, F(_)) == CHOOSE y \in { F(x) : x \in { e } } : TRUE

\* variant that does not test whether the field is still empty
set_first_overwrite(meta, operation, field, cycle) ==
    LET c == { i \in 1 .. Len(meta) : meta[i].instruction = operation }
    IN  IF c = {} THEN meta ELSE [meta EXCEPT ![Min(c)][field] = cycle]

set_first(meta, operation, field, cycle) ==
    LET c == Lacking(meta, operation, field)
    IN  IF c = {} THEN meta ELSE [meta EXCEPT ![Min(c)][field] = cycle]

\* ---------------------------------------------------------------------
\* The mutable machine handed from step to step inside one loop iteration
\* ---------------------------------------------------------------------
Machine(sts, rf, dep, rob, meta) ==
    [stations |-> sts, rf |-> rf, dep |-> dep, rob |-> rob, meta |-> meta]

CurrentMachine ==
    Machine(stations, register_file, dependency_table, reorder_buffer, instruction_metadata)

\* ---------------------------------------------------------------------
\* Issue (lines 284-317 and 329-362)
\* ---------------------------------------------------------------------
\* variant that waits for every pool to drain before issuing
CanIssue_serial(m, instr) ==
    LET r == resolve_operands(m.rf, instr.operands)
        p == PoolOf(instr.operation)
    IN  /\ p # NoPool
        /\ \A q \in Pools : \A i \in 1 .. Len(m.stations[q]) : ~m.stations[q][i].busy
        /\ r.Qj = NoTag
        /\ r.Qk = NoTag

\* variant that issues without waiting for the operands
CanIssue_unready(m, instr) ==
    LET p == PoolOf(instr.operation)
    IN  /\ p # NoPool
        /\ is_available(m.stations[p])

\* the condition of every branch of the elif chain
CanIssue(m, instr) ==
    LET r == resolve_operands(m.rf, instr.operands)
        p == PoolOf(instr.operation)
    IN  /\ p # NoPool
        /\ is_available(m.stations[p])
        /\ r.Qj = NoTag
        /\ r.Qk = NoTag

\* the body of the branch taken: allocate, tag the destination (LOAD, ADD and
\* ADDI only), note the write dependency, append the metadata record
Issue(m, instr, cycle) ==
    LET r == resolve_operands(m.rf, instr.operands)
        p == PoolOf(instr.operation)
        reg_index == instr.operands[1].reg
        tagged == IssueTag(p) # NoTag
    IN  [m EXCEPT
            !.stations[p] = allocate(@, p, instr, r),
            !.rf.status[reg_index] = IF tagged THEN IssueTag(p) ELSE @,
            !.dep[reg_index] = IF tagged THEN instr.operation ELSE @,
            !.meta = Append(@, NewRecord(instr, cycle))]

\* variant that creates the metadata record at fetch, issued or not
IssueFetched_recording(m, instr, cycle) ==
    IF CanIssue(m, instr)
    THEN [m |-> Issue(m, instr, cycle), issued |-> TRUE, crashed |-> FALSE]
    ELSE [m |-> [m EXCEPT !.meta = Append(@, NewRecord(instr, cycle))],
          issued |-> FALSE, crashed |-> FALSE]

\* fetch path: every branch calls allocate
IssueFetched(m, instr, cycle) ==
    IF CanIssue(m, instr)
    THEN [m |-> Issue(m, instr, cycle), issued |-> TRUE, crashed |-> FALSE]
    ELSE [m |-> m, issued |-> FALSE, crashed |-> FALSE]

\* stall-queue path: the NAND branch calls the pool object itself (line 315),
\* which raises TypeError before anything is changed
IssueStalled(m, instr, cycle) ==
    IF CanIssue(m, instr)
    THEN IF PoolOf(instr.operation) = "NAND"
         THEN [m |-> m, issued |-> FALSE, crashed |-> TRUE]
         ELSE [m |-> Issue(m, instr, cycle), issued |-> TRUE, crashed |-> FALSE]
    ELSE [m |-> m, issued |-> FALSE, crashed |-> FALSE]

\* the for loop over stalled_queue (lines 280-321)
RECURSIVE RetryLoop(_, _, _, _)
RetryLoop(m, q, cycle, remaining_stalled) ==
    IF q = <<>>
    THEN [m |-> m, remaining_stalled |-> remaining_stalled, crashed |-> FALSE]
    ELSE Then(IssueStalled(m, Head(q), cycle),
              LAMBDA a :
                IF a.crashed
                THEN [m |-> a.m, remaining_stalled |-> remaining_stalled, crashed |-> TRUE]
                ELSE RetryLoop(a.m, Tail(q), cycle,
                               IF a.issued THEN remaining_stalled
                               ELSE Append(remaining_stalled, Head(q))))

\* ---------------------------------------------------------------------
\* ReorderBuffer
\* ---------------------------------------------------------------------
FreeEntries(rob) == { k \in 1 .. Len(rob) : ~rob[k].busy }

\* add: the first entry that is not busy, or None
rob_add(rob, operation) ==
    IF FreeEntries(rob) = {} THEN rob
    ELSE [rob EXCEPT ![Min(FreeEntries(rob))] =
             [busy |-> TRUE, instruction |-> operation, state |-> "issue", result |-> NoVal]]

Committable(rob) == { k \in 1 .. Len(rob) : rob[k].busy /\ rob[k].state = "write" }

\* commit: the first busy entry in state write, in index order
rob_commit(m, cycle) ==
    IF Committable(m.rob) = {} THEN m
    ELSE LET k == Min(Committable(m.rob))
         IN  [m EXCEPT !.rob[k].state = "commit",
                       !.rob[k].busy = FALSE,
                       !.meta = set_first(@, m.rob[k].instruction, "commit", cycle)]

\* ---------------------------------------------------------------------
\* execute_and_commit (lines 166-214)
\* ---------------------------------------------------------------------
\* lines 190-197: every register whose status equals the pool name
WriteBackRegs(status, p) == { r \in Regs : status[r] = p }

write_back(m, p) ==
    LET hit == WriteBackRegs(m.rf.status, p)
    IN  [m EXCEPT
            !.rf.values = [r \in Regs |-> IF r \in hit THEN EXAMPLE_RESULT ELSE @[r]],
            !.rf.status = [r \in Regs |-> IF r \in hit THEN NoTag ELSE @[r]],
            !.dep = [r \in Regs |-> IF r \in hit THEN NoTag ELSE @[r]]]

\* lines 204-211: the entry is taken at write-back; without one no write_exec
mark_ready(m, operation, cycle) ==
    IF FreeEntries(m.rob) = {} THEN m
    ELSE LET k == Min(FreeEntries(m.rob))
         IN  [m EXCEPT !.rob = [rob_add(@, operation) EXCEPT ![k].state = "write"],
                       !.meta = set_first(@, operation, "write_exec", cycle)]

\* the body of the loop for one station
exec_station(m, p, i, cycle) ==
    LET st == m.stations[p][i]
    IN  IF ~st.busy \/ st.Qj # NoTag \/ st.Qk # NoTag THEN m
        ELSE LET started == IF st.cycles_left = execution_cycles(p)
                            THEN [m EXCEPT !.meta = set_first(@, st.op, "start_exec", cycle)]
                            ELSE m
                 left == st.cycles_left - 1
             IN  IF left # 0
                 THEN [started EXCEPT !.stations[p][i].cycles_left = left]
                 ELSE LET finished == [started EXCEPT !.meta = set_first(@, st.op, "finish_exec", cycle)]
                      IN  Then(write_back(finished, p),
                               LAMBDA written :
                                 [mark_ready(written, st.op, cycle) EXCEPT !.stations[p] = release(@, i)])

RECURSIVE exec_from(_, _, _, _)
exec_from(m, p, i, cycle) ==
    IF i > Len(m.stations[p]) THEN m
    ELSE Then(exec_station(m, p, i, cycle), LAMBDA x : exec_from(x, p, i + 1, cycle))

execute_and_commit(m, p, cycle) == exec_from(m, p, 1, cycle)

\* lines 368-374: the seven calls, in order
RECURSIVE exec_pools(_, _, _)
exec_pools(m, n, cycle) ==
    IF n > Len(PoolNames) THEN m
    ELSE Then(execute_and_commit(m, PoolNames[n], cycle), LAMBDA x : exec_pools(x, n + 1, cycle))

\* ---------------------------------------------------------------------
\* Initial state (lines 249-271)
\* ---------------------------------------------------------------------
Init ==
    /\ program \in Programs
    /\ instruction_queue =
         [i \in 1 .. Len(program) |->
            [id |-> i, operation |-> program[i].operation, operands |-> program[i].operands]]
    /\ stalled_queue = <<>>
    /\ register_file = [values |-> [r \in Regs |-> 0], status |-> [r \in Regs |-> NoTag]]
    /\ dependency_table = [r \in Regs |-> NoTag]
    /\ stations = [p \in Pools |-> [i \in 1 .. num_stations(p) |-> EmptyStation]]
    /\ reorder_buffer = [k \in 1 .. ROB_SIZE |-> EmptyEntry]
    /\ instruction_metadata = <<>>
    /\ current_cycle = 1
    /\ pc = "retry"

Install(m) ==
    /\ stations' = m.stations
    /\ register_file' = m.rf
    /\ dependency_table' = m.dep
    /\ reorder_buffer' = m.rob
    /\ instruction_metadata' = m.meta

AnyBusy(sts) == \E p \in Pools : \E i \in 1 .. Len(sts[p]) : sts[p][i].busy

\* the while condition (lines 273-276)
LoopCondition(iq, sq, sts) == iq # <<>> \/ sq # <<>> \/ AnyBusy(sts)

\* ---------------------------------------------------------------------
\* The loop body, one action per step
\* ---------------------------------------------------------------------
\* lines 279-321
RetryStalled ==
    /\ pc = "retry"
    /\ \E a \in { RetryLoop(CurrentMachine, stalled_queue, current_cycle, <<>>) } :
           /\ Install(a.m)
           /\ stalled_queue' = IF a.crashed THEN stalled_queue ELSE a.remaining_stalled
           /\ pc' = IF a.crashed THEN "crashed" ELSE "fetch"
    /\ UNCHANGED << program, instruction_queue, current_cycle >>

\* variant that puts a newly stalled instruction at the front of the queue
FetchIssue_prepend ==
    /\ pc = "fetch"
    /\ IF instruction_queue # <<>>
       THEN \E a \in { IssueFetched(CurrentMachine, Head(instruction_queue), current_cycle) } :
                /\ instruction_queue' = Tail(instruction_queue)
                /\ Install(a.m)
                /\ stalled_queue' = IF a.issued THEN stalled_queue
                                    ELSE << Head(instruction_queue) >> \o stalled_queue
       ELSE UNCHANGED << instruction_queue, stalled_queue, stations, register_file,
                         dependency_table, reorder_buffer, instruction_metadata >>
    /\ pc' = "execute"
    /\ UNCHANGED << program, current_cycle >>

\* lines 323-365
FetchIssue ==
    /\ pc = "fetch"
    /\ IF instruction_queue # <<>>
       THEN \E a \in { IssueFetched(CurrentMachine, Head(instruction_queue), current_cycle) } :
                /\ instruction_queue' = Tail(instruction_queue)
                /\ Install(a.m)
                /\ stalled_queue' = IF a.issued THEN stalled_queue
                                    ELSE Append(stalled_queue, Head(instruction_queue))
       ELSE UNCHANGED << instruction_queue, stalled_queue, stations, register_file,
                         dependency_table, reorder_buffer, instruction_metadata >>
    /\ pc' = "execute"
    /\ UNCHANGED << program, current_cycle >>

\* lines 367-374
Execute ==
    /\ pc = "execute"
    /\ \E m \in { exec_pools(CurrentMachine, 1, current_cycle) } : Install(m)
    /\ pc' = "commit"
    /\ UNCHANGED << program, instruction_queue, stalled_queue, current_cycle >>

\* A state, at the end of an iteration, that every later iteration leaves as
\* it is but for the cycle counter: nothing left to fetch, nothing executing,
\* nothing to commit, and no stalled instruction that can issue (tags change
\* only at issue and at write-back)
Livelocked ==
    /\ instruction_queue = <<>>
    /\ stalled_queue # <<>>
    /\ ~AnyBusy(stations)
    /\ Committable(reorder_buffer) = {}
    /\ \A k \in 1 .. Len(stalled_queue) : ~CanIssue(CurrentMachine, stalled_queue[k])

\* variant that retires any committable entry, not the first in index order
CommitStep_any ==
    /\ pc = "commit"
    /\ LoopCondition(instruction_queue, stalled_queue, stations)
         => (current_cycle < MaxCycle \/ Livelocked)
    /\ \E k \in Committable(reorder_buffer) \cup { 0 } :
         /\ (k = 0) => (Committable(reorder_buffer) = {})
         /\ \E m \in { IF k = 0 THEN CurrentMachine
                       ELSE [CurrentMachine EXCEPT
                               !.rob[k].state = "commit",
                               !.rob[k].busy = FALSE,
                               !.meta = set_first(@, reorder_buffer[k].instruction, "commit", current_cycle)] } :
              Install(m)
    /\ current_cycle' = IF current_cycle < MaxCycle THEN current_cycle + 1 ELSE current_cycle
    /\ pc' = IF LoopCondition(instruction_queue, stalled_queue, stations) THEN "retry" ELSE "done"
    /\ UNCHANGED << program, instruction_queue, stalled_queue >>

\* lines 376-380 and the loop test of the next iteration.  The counter is
\* bounded: a run goes on past MaxCycle only when it is livelocked, where the
\* counter is no longer read, and it is then held at MaxCycle.
CommitStep ==
    /\ pc = "commit"
    /\ LoopCondition(instruction_queue, stalled_queue, stations)
         => (current_cycle < MaxCycle \/ Livelocked)
    /\ \E m \in { rob_commit(CurrentMachine, current_cycle) } : Install(m)
    /\ current_cycle' = IF current_cycle < MaxCycle THEN current_cycle + 1 ELSE current_cycle
    /\ pc' = IF LoopCondition(instruction_queue, stalled_queue, stations) THEN "retry" ELSE "done"
    /\ UNCHANGED << program, instruction_queue, stalled_queue >>

Next == RetryStalled \/ FetchIssue \/ Execute \/ CommitStep

Spec == Init /\ [][Next]_vars

\* the loop body runs without interruption: every enabled step is taken
FairSpec == Spec /\ WF_vars(Next)

TypeOK ==
    /\ pc \in { "retry", "fetch", "execute", "commit", "done", "crashed" }
    /\ current_cycle \in 1 .. (MaxCycle + 1)
    /\ Len(reorder_buffer) = ROB_SIZE

\* =====================================================================
\* Properties
\* =====================================================================
Records == 1 .. Len(instruction_metadata)
Committed == { i \in Records : instruction_metadata[i].commit # NoCycle }
Slots == { x \in Pools \X (1 .. 4) : x[2] <= num_stations(x[1]) }
BusySlots == { x \in Slots : stations[x[1]][x[2]].busy }
BusyEntries == { k \in 1 .. Len(reorder_buffer) : reorder_buffer[k].busy }

\* the instruction classes that write their first operand
RegisterWriting == { "LOAD", "ADD", "ADDI", "MULT", "NAND" }
Destination(instr) == instr.operands[1].reg
RegsAt(instr, positions) ==
    { instr.operands[k].reg : k \in { n \in positions : n <= Len(instr.operands) } }
\* the registers an instruction reads
Sources(instr) ==
    CASE instr.operation = "LOAD" -> RegsAt(instr, { 2 })
      [] instr.operation \in { "STORE", "BEQ" } -> RegsAt(instr, { 1, 2 })
      [] instr.operation \in { "CALL", "RET" } -> RegsAt(instr, { 1 })
      [] instr.operation = "ADDI" -> RegsAt(instr, { 2 })
      [] OTHER -> RegsAt(instr, { 2, 3 })
AllRegs(instr) == RegsAt(instr, { 1, 2, 3 })

\* the latencies as the specification lists them, by mnemonic
StatedLatency(operation) ==
    CASE operation = "LOAD" -> 6
      [] operation \in { "ADD", "ADDI" } -> 2
      [] operation = "STORE" -> 6
      [] operation = "MULT" -> 8
      [] operation = "BEQ" -> 3
      [] operation \in { "CALL", "RET" } -> 4
      [] operation = "NAND" -> 1
      \* a line of any other mnemonic is dispatched, if at all, to the NAND pool
      [] OTHER -> 1

\* ---------------------------------------------------------------------
\* C1  In-order commit: records are appended in issue order; whenever a later
\* record carries a commit cycle, every earlier record carries one that is
\* no later.
InOrderCommit ==
    \A i, j \in Records :
        (i < j /\ instruction_metadata[j].commit # NoCycle)
            => /\ instruction_metadata[i].commit # NoCycle
               /\ instruction_metadata[i].commit <= instruction_metadata[j].commit

\* ---------------------------------------------------------------------
\* C2  Single writer: for every register, at most one instruction occupying a
\* reservation-station slot (issued, not yet written back) has it as destination.
WritersInFlight(r) ==
    { x \in BusySlots :
        LET instr == program[stations[x[1]][x[2]].id]
        IN  instr.operation \in RegisterWriting /\ Destination(instr) = r }

SingleWriter == \A r \in Regs : Cardinality(WritersInFlight(r)) <= 1

\* ---------------------------------------------------------------------
\* C3  Conservation: when the loop has exited, as many records carry a commit
\* cycle as instructions were fetched, and each of them has all five timestamps.
Fetched == Len(program) - Len(instruction_queue)

AllStamped(e) ==
    /\ e.issued # NoCycle
    /\ e.start_exec # NoCycle
    /\ e.finish_exec # NoCycle
    /\ e.write_exec # NoCycle
    /\ e.commit # NoCycle

Conservation ==
    pc = "done" =>
        /\ Cardinality(Committed) = Fetched
        /\ \A i \in Committed : AllStamped(instruction_metadata[i])

\* ---------------------------------------------------------------------
\* C4  No resource leak: when the loop has exited, no reservation-station slot
\* and no reorder-buffer entry is busy.
NoResourceLeak == pc = "done" => (BusySlots = {} /\ BusyEntries = {})

\* ---------------------------------------------------------------------
\* C5  Termination: for a program of recognized mnemonics the loop eventually
\* exits (an abnormal end of the run is counted as an exit here).
RecognizedMnemonics == { "LOAD", "STORE", "ADD", "ADDI", "MULT", "BEQ", "CALL", "RET", "NAND" }
Recognized == \A i \in 1 .. Len(program) : program[i].operation \in RecognizedMnemonics

Termination == Recognized => <>(pc \in { "done", "crashed" })

\* the cycle bound is met only by runs that spin without changing anything
CapOnlyCutsLivelock ==
    (pc = "commit" /\ current_cycle = MaxCycle
       /\ LoopCondition(instruction_queue, stalled_queue, stations)) => Livelocked

\* ---------------------------------------------------------------------
\* C6  Read after write: a consumer that reads the destination of an earlier
\* issued register-writing instruction starts no earlier than the cycle after
\* that producer's write-back, and a finished consumer ran for its latency.
Producers(c) ==
    { p \in Records :
        /\ instruction_metadata[p].id < instruction_metadata[c].id
        /\ program[instruction_metadata[p].id].operation \in RegisterWriting
        /\ Destination(program[instruction_metadata[p].id])
               \in Sources(program[instruction_metadata[c].id])
        \* still in flight when the consumer was issued
        /\ instruction_metadata[p].issued <= instruction_metadata[c].issued
        /\ (instruction_metadata[p].write_exec = NoCycle
            \/ instruction_metadata[p].write_exec >= instruction_metadata[c].issued) }

ReadAfterWrite ==
    \A c \in Records :
        LET e == instruction_metadata[c]
        IN  /\ e.start_exec # NoCycle =>
                \A p \in Producers(c) :
                    /\ instruction_metadata[p].write_exec # NoCycle
                    /\ e.start_exec > instruction_metadata[p].write_exec
            /\ e.finish_exec # NoCycle =>
                e.finish_exec - e.start_exec + 1 = StatedLatency(e.instruction)

\* ---------------------------------------------------------------------
\* C7  Latency conformance: every record with a finish cycle has a start
\* cycle, and finish - start + 1 is the stated latency of its class.
LatencyConformance ==
    \A i \in Records :
        LET e == instruction_metadata[i]
        IN  e.finish_exec # NoCycle =>
                /\ e.start_exec # NoCycle
                /\ e.finish_exec - e.start_exec + 1 = StatedLatency(e.instruction)

\* an instruction that had been stalled has finished while others are in flight
LatencyWitness ==
    \E i \in Records :
        /\ instruction_metadata[i].finish_exec # NoCycle
        /\ instruction_metadata[i].issued > instruction_metadata[i].id
        /\ Cardinality(BusySlots) >= 2

\* ---------------------------------------------------------------------
\* C8  Reorder-buffer capacity: the number of issued, uncommitted
\* instructions never exceeds the capacity of the reorder buffer.
InFlight == Records \ Committed

ROBBoundsInFlight == Cardinality(InFlight) <= ROB_SIZE

\* ---------------------------------------------------------------------
\* C9  Single write-back port: in one cycle at most one slot of a pool
\* completes and is released.
Released(p) == { i \in 1 .. num_stations(p) : stations[p][i].busy /\ ~stations'[p][i].busy }

SingleWriteBackPort == [][\A p \in Pools : Cardinality(Released(p)) <= 1]_vars

\* ---------------------------------------------------------------------
\* C10  No false serialization: a fetched instruction none of whose registers
\* carries a producer tag and whose pool has a free slot is issued in that
\* step; and of two instructions fetched one after the other, both issued
\* when fetched and sharing no register, the second has started by the
\* cycle in which the first finishes if the first's latency is at least 2.
Untagged(instr) == \A r \in AllRegs(instr) : register_file.status[r] = NoTag

IssuedWhenFetched ==
    (pc = "fetch" /\ instruction_queue # <<>>
       /\ Untagged(Head(instruction_queue))
       /\ PoolOf(Head(instruction_queue).operation) # NoPool
       /\ is_available(stations[PoolOf(Head(instruction_queue).operation)]))
    => /\ Len(instruction_metadata') = Len(instruction_metadata) + 1
       /\ instruction_metadata'[Len(instruction_metadata')].id = Head(instruction_queue).id
       /\ instruction_metadata'[Len(instruction_metadata')].issued = current_cycle
       /\ stalled_queue' = stalled_queue

\* instruction k is fetched in cycle k, so issued = id means issued when fetched
IndependentPairs ==
    { x \in Records \X Records :
        LET a == instruction_metadata[x[1]]
            b == instruction_metadata[x[2]]
        IN  /\ b.id = a.id + 1
            /\ a.issued = a.id
            /\ b.issued = b.id
            /\ AllRegs(program[a.id]) \cap AllRegs(program[b.id]) = {}
            /\ StatedLatency(a.instruction) >= 2 }

Overlap ==
    \A x \in IndependentPairs :
        LET a == instruction_metadata[x[1]]
            b == instruction_metadata[x[2]]
        IN  /\ b.issued = a.issued + 1
            /\ a.finish_exec # NoCycle =>
                  (b.start_exec # NoCycle /\ b.start_exec <= a.finish_exec)
            /\ (pc \in { "commit", "retry", "done" }) => b.start_exec = b.issued

NoFalseSerialization == [][IssuedWhenFetched /\ Overlap']_vars

NoFalseSerializationWitness ==
    \E x \in IndependentPairs :
        /\ instruction_metadata[x[1]].finish_exec # NoCycle
        /\ instruction_metadata[x[2]].start_exec < instruction_metadata[x[1]].finish_exec

\* ---------------------------------------------------------------------
\* C11  Malformed instructions never reach the scheduler: an instruction whose
\* mnemonic is not recognized is never fetched, never on the stall queue and
\* never in a reservation-station slot.
Malformed(i) == program[i].operation \notin RecognizedMnemonics

NoMalformedScheduled ==
    \A i \in 1 .. Len(program) :
        Malformed(i) =>
            /\ i > Fetched
            /\ \A k \in 1 .. Len(stalled_queue) : stalled_queue[k].id # i
            /\ \A x \in BusySlots : stations[x[1]][x[2]].id # i

\* ---------------------------------------------------------------------
\* C12  Misprediction squash: when a mispredicted branch writes back, every
\* instruction issued after it and not yet committed loses its
\* reservation-station slot.  Fetch always continues with the next line, so
\* a BEQ whose two operand values are equal (branch taken) is mispredicted.
RecordOf(id) == CHOOSE i \in Records : instruction_metadata[i].id = id

CompletesNow(x) ==
    LET st == stations[x[1]][x[2]]
    IN  st.busy /\ st.Qj = NoTag /\ st.Qk = NoTag /\ st.cycles_left = 1

MispredictedNow ==
    { x \in BusySlots :
        /\ CompletesNow(x)
        /\ stations[x[1]][x[2]].op = "BEQ"
        /\ stations[x[1]][x[2]].Vj = stations[x[1]][x[2]].Vk }

IssuedAfter(x) ==
    { y \in BusySlots : RecordOf(stations[y[1]][y[2]].id) > RecordOf(stations[x[1]][x[2]].id) }

SquashOnMisprediction ==
    [][pc = "execute" =>
         \A x \in MispredictedNow : \A y \in IssuedAfter(x) : ~stations'[y[1]][y[2]].busy]_vars

\* ---------------------------------------------------------------------
\* C13  Determinism: the step taken from a reachable state is the only step
\* possible from it, so a program has one run and one final set of records.
OnlySuccessor == \A w \in { vars' } : ~ENABLED (Next /\ vars' # w)

Determinism == [][OnlySuccessor]_vars

\* two entries are ready to retire at once, and the run still has one next step
DeterminismWitness == pc = "commit" /\ Cardinality(Committable(reorder_buffer)) >= 2

\* ---------------------------------------------------------------------
\* C14  Write-back touches one register only: a register whose value or
\* producer tag changes in the execute step is the destination of an
\* instruction that completed in that step.
CompletedDestinations ==
    { Destination(program[stations[x[1]][x[2]].id]) :
        x \in { y \in BusySlots : ~stations'[y[1]][y[2]].busy } }

TouchedRegs ==
    { r \in Regs : \/ register_file'.status[r] # register_file.status[r]
                   \/ register_file'.values[r] # register_file.values[r] }

WriteBackOwnRegister == [][pc = "execute" => TouchedRegs \subseteq CompletedDestinations]_vars

\* ---------------------------------------------------------------------
\* C15  Producer tag set at issue: the destination of every register-writing
\* instruction that occupies a reservation-station slot (issued, not yet
\* written back) carries a producer tag.
WritersIssued ==
    { x \in BusySlots : program[stations[x[1]][x[2]].id].operation \in RegisterWriting }

TagSetAtIssue ==
    \A x \in WritersIssued :
        register_file.status[Destination(program[stations[x[1]][x[2]].id])] # NoTag

\* ---------------------------------------------------------------------
\* C16  Producer tag cleared at write-back: a register carries a producer tag
\* only while an instruction that writes it occupies a reservation-station
\* slot; in particular no register is tagged when no slot is busy.
TagOnlyWhileInFlight ==
    \A r \in Regs : register_file.status[r] # NoTag => WritersInFlight(r) # {}

\* ---------------------------------------------------------------------
\* C17  Failed issue is atomic: an issue attempt that fails (no pool, no free
\* slot in the pool, or a producer tag on one of the two checked operands)
\* changes neither the register file, the slots, the reorder buffer nor the
\* metadata, and leaves the instruction on the stall queue.
CheckedRegs(instr) == RegsAt(instr, { 1, 2 })

CannotIssue(instr) ==
    \/ PoolOf(instr.operation) = NoPool
    \/ \A i \in 1 .. num_stations(PoolOf(instr.operation)) :
           stations[PoolOf(instr.operation)][i].busy
    \/ \E r \in CheckedRegs(instr) : register_file.status[r] # NoTag

MachineUnchanged ==
    UNCHANGED << register_file, dependency_table, stations, reorder_buffer, instruction_metadata >>

FailedFetchAtomic ==
    (pc = "fetch" /\ instruction_queue # <<>> /\ CannotIssue(Head(instruction_queue)))
        => /\ MachineUnchanged
           /\ stalled_queue' = Append(stalled_queue, Head(instruction_queue))

\* the stalled instructions issued by this retry pass, by their new records
NewRecords ==
    { instruction_metadata'[i].id :
        i \in (Len(instruction_metadata) + 1) .. Len(instruction_metadata') }

FailedRetryAtomic ==
    pc = "retry" =>
        LET failed(q) == q.id \notin NewRecords
        IN  \* the instructions that failed stay, in order, without a slot
            /\ pc' = "fetch" => stalled_queue' = SelectSeq(stalled_queue, failed)
            /\ pc' = "crashed" => stalled_queue' = stalled_queue
            /\ \A k \in 1 .. Len(stalled_queue) :
                 failed(stalled_queue[k]) =>
                    \A x \in Slots : stations'[x[1]][x[2]].id # stalled_queue[k].id
            \* every change is the issue of an instruction that did not fail
            /\ reorder_buffer' = reorder_buffer
            /\ SubSeq(instruction_metadata', 1, Len(instruction_metadata)) = instruction_metadata
            /\ \A x \in Slots :
                 stations'[x[1]][x[2]] # stations[x[1]][x[2]]
                    => stations'[x[1]][x[2]].id \in NewRecords
            /\ \A r \in Regs :
                 (register_file'.status[r] # register_file.status[r]
                    \/ register_file'.values[r] # register_file.values[r])
                    => \E k \in 1 .. Len(stalled_queue) :
                         ~failed(stalled_queue[k]) /\ Destination(stalled_queue[k]) = r
            \* when every attempt fails nothing changes at all
            /\ (\A k \in 1 .. Len(stalled_queue) : CannotIssue(stalled_queue[k]))
                 => (MachineUnchanged /\ stalled_queue' = stalled_queue)

FailedIssueAtomic == [][FailedFetchAtomic /\ FailedRetryAtomic]_vars

\* a retry pass issued one stalled instruction and left another on the queue,
\* and the instruction fetched next was stalled too
FailedIssueWitness ==
    /\ pc = "execute"
    /\ Len(stalled_queue) >= 2
    /\ stalled_queue[Len(stalled_queue)].id = Fetched
    /\ \E i \in Records :
         /\ instruction_metadata[i].issued = current_cycle
         /\ instruction_metadata[i].id < Fetched

\* ---------------------------------------------------------------------
\* C18  Retry equals fresh issue: a stalled instruction whose pool has a free
\* slot and whose operands are ready is issued by the retry step with the
\* state changes the fetch step would make, and the run goes on.
RetryEqualsFresh ==
    /\ pc # "crashed"
    /\ pc = "retry" =>
         \A k \in 1 .. Len(stalled_queue) :
             CanIssue(CurrentMachine, stalled_queue[k]) =>
                 IssueStalled(CurrentMachine, stalled_queue[k], current_cycle)
                     = IssueFetched(CurrentMachine, stalled_queue[k], current_cycle)

\* ---------------------------------------------------------------------
\* C19  Stall-queue order: the stall queue lists its instructions in program
\* (fetch) order.
StallQueueInOrder ==
    \A i, j \in 1 .. Len(stalled_queue) :
        i < j => stalled_queue[i].id < stalled_queue[j].id

\* a retry issued the instruction between two that stay stalled
StallQueueWitness ==
    /\ Len(stalled_queue) >= 2
    /\ \E i \in Records :
         /\ stalled_queue[1].id < instruction_metadata[i].id
         /\ instruction_metadata[i].id < stalled_queue[2].id
         /\ instruction_metadata[i].issued > instruction_metadata[i].id

\* ---------------------------------------------------------------------
\* C20  Monotone timestamps: in every record the filled timestamps are in the
\* order issued <= start_exec <= finish_exec <= write_exec <= commit, none is
\* filled while an earlier one is empty, and a filled one never changes.
StampFields == << "issued", "start_exec", "finish_exec", "write_exec", "commit" >>

StampsInOrder(e) ==
    \A a, b \in 1 .. Len(StampFields) :
        (a < b /\ e[StampFields[b]] # NoCycle)
            => /\ e[StampFields[a]] # NoCycle
               /\ e[StampFields[a]] <= e[StampFields[b]]

StampsKept ==
    /\ Len(instruction_metadata') >= Len(instruction_metadata)
    /\ \A i \in Records : \A a \in 1 .. Len(StampFields) :
         instruction_metadata[i][StampFields[a]] # NoCycle
            => instruction_metadata'[i][StampFields[a]] = instruction_metadata[i][StampFields[a]]

MonotoneTimestamps ==
    [][/\ \A i \in 1 .. Len(instruction_metadata') : StampsInOrder(instruction_metadata'[i])
       /\ StampsKept]_vars

\* one record has all five timestamps, and one finished when the reorder
\* buffer was full and so has no write_exec
MonotoneWitness ==
    /\ pc = "commit"
    /\ \E i \in Records : AllStamped(instruction_metadata[i])
    /\ \E i \in Records :
         /\ instruction_metadata[i].finish_exec # NoCycle
         /\ instruction_metadata[i].write_exec = NoCycle

\* ---------------------------------------------------------------------
\* C21  Operands ready at issue: every busy slot has neither Qj nor Qk; so a
\* record's start_exec is its issue cycle, filled by the execute step of
\* that cycle, and its finish_exec is issued + latency - 1, filled by the
\* execute step of that cycle.
\* the execute step of cycle c has run
ExecutedThrough(c) ==
    \/ current_cycle > c
    \/ current_cycle = c /\ pc \in { "commit", "done" }

BusySlotsReady ==
    \A x \in BusySlots :
        stations[x[1]][x[2]].Qj = NoTag /\ stations[x[1]][x[2]].Qk = NoTag

StartsWhenIssued(e) ==
    /\ e.start_exec # NoCycle => e.start_exec = e.issued
    /\ ExecutedThrough(e.issued) => e.start_exec # NoCycle

FinishesOnTime(e) ==
    LET last == e.issued + StatedLatency(e.instruction) - 1
    IN  /\ e.finish_exec # NoCycle => e.finish_exec = last
        /\ ExecutedThrough(last) => e.finish_exec # NoCycle

====
